---- MODULE Spec2Model ----
(***************************************************************************)
(* Model of the CSV cleaning pipeline of src/app.py: read_csv, basic       *)
(* cleaning, column trimming, time parsing, axis resolution, widget        *)
(* selection, row filtering, 15-minute resampling, z-score normalisation   *)
(* with outlier removal, and the final empty check / hand-over.            *)
(*                                                                         *)
(* Numbers are exact: a numeric cell is  c * sqrt(r)  with c and r         *)
(* rationals (r = 1 for raw values), so that means, sample standard        *)
(* deviations and z-scores are computed without rounding.                  *)
(***************************************************************************)
EXTENDS Integers, Sequences, FiniteSets, TLC

VARIABLES
    pc,         \* the position of the script, "done" once it has stopped
    csv,        \* the uploaded file: header and lines of text cells
    cols,       \* df.columns
    df,         \* df, a sequence of rows
    axis_cols,  \* axis_cols
    platform,   \* the selected platform_name
    x_axis,     \* the selected X-axis column
    y_axis,     \* the selected Y-axis column
    data,       \* data
    norm_in,    \* data as it entered the normalisation loop
    i,          \* the pass of the normalisation loop: 1 for x_axis, 2 for y_axis
    mu,         \* mu of the latest pass
    sigma,      \* sigma of the latest pass
    outcome,    \* how the run ended: nodata, outliers, result or error
    table       \* the rows handed to st.dataframe

vars == <<pc, csv, cols, df, axis_cols, platform, x_axis, y_axis,
          data, norm_in, i, mu, sigma, outcome, table>>

(***************************************************************************)
(* Program constants                                                       *)
(***************************************************************************)
SENTINEL == -9999
Z_OUTLIER_CUT == 3
BucketMinutes == 15
PreviewRows == 100

(***************************************************************************)
(* Bounds of the model                                                     *)
(***************************************************************************)
MaxRows == 3
BulkN == 10

(***************************************************************************)
(* Exact rational arithmetic: <<n, d>> with d > 0, in lowest terms         *)
(***************************************************************************)
Abs(n) == IF n < 0 THEN -n ELSE n

RECURSIVE Gcd(_, _)
Gcd(a, b) == IF b = 0 THEN a ELSE Gcd(b, a % b)

Rat(n, d) ==
    LET s == IF d < 0 THEN -1 ELSE 1
        g == Gcd(Abs(n), Abs(d))
    IN  <<(s * n) \div g, (s * d) \div g>>

RInt(n) == <<n, 1>>

RAdd(a, b) ==
    LET g == Gcd(a[2], b[2])
    IN  Rat(a[1] * (b[2] \div g) + b[1] * (a[2] \div g), (a[2] \div g) * b[2])

RNeg(a) == <<-a[1], a[2]>>

RSub(a, b) == RAdd(a, RNeg(b))

RMul(a, b) ==
    LET g1 == Gcd(Abs(a[1]), b[2])
        g2 == Gcd(Abs(b[1]), a[2])
    IN  IF a[1] = 0 \/ b[1] = 0 THEN <<0, 1>>
        ELSE <<(a[1] \div g1) * (b[1] \div g2), (a[2] \div g2) * (b[2] \div g1)>>

RDiv(a, b) == RMul(a, IF b[1] < 0 THEN <<-b[2], -b[1]>> ELSE <<b[2], b[1]>>)

RLeq(a, b) == RSub(a, b)[1] <= 0

(***************************************************************************)
(* Cell values: missing, text, number, timestamp                           *)
(***************************************************************************)
NaN == [t |-> "nan"]
None == [t |-> "none"]
Str(s) == [t |-> "str", s |-> s]
Real(c, r) == [t |-> "num", c |-> c, r |-> r]
Num(n) == Real(RInt(n), RInt(1))
Ts(m) == [t |-> "ts", m |-> m]

IsNaN(v) == v.t = "nan"

\* numeric equality of two numbers  c1*sqrt(r1) = c2*sqrt(r2)
NumEq(a, b) ==
    /\ a.t = "num" /\ b.t = "num"
    /\ (a.c[1] > 0) = (b.c[1] > 0)
    /\ (a.c[1] < 0) = (b.c[1] < 0)
    /\ RMul(RMul(a.c, a.c), a.r) = RMul(RMul(b.c, b.c), b.r)

\* a - b; the operands come from one column and share the radicand
NumSub(a, b) ==
    IF IsNaN(a) \/ IsNaN(b) THEN NaN
    ELSE Real(RSub(a.c, b.c), a.r)

\* a / b; division by zero and NaN operands give NaN (0/0) or are not reached
NumDiv(a, b) ==
    IF IsNaN(a) \/ IsNaN(b) \/ b.c[1] = 0 THEN NaN
    ELSE Real(RDiv(a.c, b.c), RDiv(a.r, b.r))

\* |a| <= k for an integer k >= 0; FALSE for NaN, as every comparison with NaN
AbsLeq(a, k) ==
    /\ ~IsNaN(a)
    /\ RLeq(RMul(RMul(a.c, a.c), a.r), RInt(k * k))

(***************************************************************************)
(* pandas reductions over a column (a sequence of cells), skipping NaN     *)
(***************************************************************************)
NotNaN(v) == ~IsNaN(v)

RECURSIVE RSum(_)
RSum(s) == IF s = <<>> THEN RInt(0) ELSE RAdd(Head(s), RSum(Tail(s)))

Coefs(s) == [k \in 1..Len(s) |-> s[k].c]

\* Series.mean(): NaN for an empty column
Mean(col) ==
    LET s == SelectSeq(col, NotNaN)
    IN  IF s = <<>> THEN NaN
        ELSE Real(RDiv(RSum(Coefs(s)), RInt(Len(s))), s[1].r)

\* Series.std(), ddof = 1: NaN for fewer than two values
Std(col) ==
    LET s == SelectSeq(col, NotNaN)
        n == Len(s)
        m == RDiv(RSum(Coefs(s)), RInt(n))
        sq == [k \in 1..n |-> RMul(RSub(s[k].c, m), RSub(s[k].c, m))]
        v == RDiv(RSum(sq), RInt(n - 1))
    IN  IF n < 2 THEN NaN
        ELSE IF v[1] = 0 THEN Num(0)
        ELSE Real(RInt(1), RMul(v, s[1].r))

\* sigma != 0 in Python: True for NaN
NonZero(v) == IsNaN(v) \/ v.c[1] # 0

(***************************************************************************)
(* Text conversions                                                        *)
(***************************************************************************)
\* the texts that parse as numbers, with their values
NumText ==
    "0" :> 0 @@ "1" :> 1 @@ "2" :> 2 @@ "3" :> 3 @@ "4" :> 4 @@ "5" :> 5 @@
    "7" :> 7 @@ "-9999" :> -9999

\* the texts that match TIME_FMT, as minutes since midnight of the day
TimeText ==
    "2024-01-01T00:00:00Z" :> 0 @@ "2024-01-01T00:05:00Z" :> 5 @@
    "2024-01-01T00:20:00Z" :> 20 @@ "2024-01-01T00:40:00Z" :> 40

\* pd.to_numeric(errors="coerce") on one cell
ToNumeric(v) ==
    IF v.t = "num" THEN v
    ELSE IF v.t = "str" /\ v.s \in DOMAIN NumText THEN Num(NumText[v.s])
    ELSE NaN

\* pd.to_datetime(format=TIME_FMT, errors="coerce") on one cell
ToDatetime(v) ==
    IF v.t = "str" /\ v.s \in DOMAIN TimeText THEN Ts(TimeText[v.s])
    ELSE IF v.t = "ts" THEN v
    ELSE NaN

(***************************************************************************)
(* Frames: a sequence of rows, a row a function from column name to cell   *)
(***************************************************************************)
Range(s) == {s[k] : k \in 1..Len(s)}

IndexOf(s, e) == CHOOSE k \in 1..Len(s) : s[k] = e /\ \A j \in 1..(k - 1) : s[j] # e

Column(frame, col) == [k \in 1..Len(frame) |-> frame[k][col]]

RECURSIVE Filter(_, _)
\* the rows of frame whose position is in keep, in order
Filter(frame, keep) ==
    IF frame = <<>> THEN <<>>
    ELSE LET n == Len(frame)
             rest == Filter(SubSeq(frame, 1, n - 1), keep)
         IN  IF n \in keep THEN Append(rest, frame[n]) ELSE rest

\* pd.read_csv: a column whose non-empty cells all parse as numbers is numeric,
\* any other column keeps its cells as text; an empty cell is missing
NumericColumn(rows, col) ==
    \A k \in 1..Len(rows) : rows[k][col] = "" \/ rows[k][col] \in DOMAIN NumText

ReadCell(rows, col, txt) ==
    IF txt = "" THEN NaN
    ELSE IF NumericColumn(rows, col) THEN Num(NumText[txt])
    ELSE Str(txt)

read_csv(file) ==
    [k \in 1..Len(file.rows) |->
        [c \in Range(file.header) |-> ReadCell(file.rows, c, file.rows[k][c])]]

(***************************************************************************)
(* Uploaded files                                                          *)
(***************************************************************************)
CsvRow(p, t, lat, hbb, tail) ==
    "platform_name" :> p @@ "time" :> t @@ "latitude" :> lat @@ "hbb" :> hbb @@
    "tail" :> tail

\* rows with numeric measurements
Plain ==
    { CsvRow("A", "2024-01-01T00:00:00Z", "1", "2", "7"),
      CsvRow("A", "2024-01-01T00:05:00Z", "1", "4", "7"),
      CsvRow("A", "2024-01-01T00:40:00Z", "3", "2", "") }

\* rows with text, empty and sentinel cells
Dirty ==
    { CsvRow("B", "bad", "abc", "5", "x"),
      CsvRow("", "", "-9999", "", ""),
      CsvRow("A", "2024-01-01T00:20:00Z", "-9999", "-9999", "") }

Pool == Plain \cup Dirty

BulkRow == CsvRow("A", "2024-01-01T00:00:00Z", "0", "0", "")

Layouts ==
    { <<"platform_name", "time", "latitude", "hbb", "tail">>,
      <<"platform_name", "time", "hbb", "tail">>,
      <<"time", "latitude", "platform_name", "hbb", "tail">>,
      <<"time", "latitude", "hbb", "platform_name">>,
      <<"platform_name", "latitude", "tail">> }

Restrict(row, header) == [c \in Range(header) |-> row[c]]

File(h, rows) == [header |-> h, rows |-> [k \in 1..Len(rows) |-> Restrict(rows[k], h)]]

\* every sequence of at most n rows of S
SeqsUpTo(S, n) == UNION {[1..m -> S] : m \in 0..n}

\* short files of any rows, and long files: BulkN equal rows, then plain rows
Files ==
    {File(h, rows) : h \in Layouts, rows \in SeqsUpTo(Pool, MaxRows)}
    \cup
    {File(h, [k \in 1..BulkN |-> BulkRow] \o rows) :
        h \in Layouts, rows \in SeqsUpTo(Plain, MaxRows)}

Init ==
    /\ pc = "upload"
    /\ csv \in Files
    /\ cols = <<>>
    /\ df = <<>>
    /\ axis_cols = <<>>
    /\ platform = None
    /\ x_axis = ""
    /\ y_axis = ""
    /\ data = <<>>
    /\ norm_in = <<>>
    /\ i = 0
    /\ mu = NaN
    /\ sigma = NaN
    /\ outcome = "none"
    /\ table = <<>>

(***************************************************************************)
(* 1 . Upload CSV                                                          *)
(***************************************************************************)
ReadCsv ==
    /\ pc = "upload"
    /\ df' = read_csv(csv)
    /\ cols' = csv.header
    /\ pc' = "read"
    /\ UNCHANGED <<csv, axis_cols, platform, x_axis, y_axis, data, norm_in, i,
                   mu, sigma, outcome, table>>

(***************************************************************************)
(* 2 . Basic cleaning: drop empty lines, then sentinel -> NaN              *)
(***************************************************************************)
AllMissing(row) == \A c \in DOMAIN row : IsNaN(row[c])

\* df.dropna(how="all")
DropEmptyRows(frame) == Filter(frame, {k \in 1..Len(frame) : ~AllMissing(frame[k])})

\* df.replace(SENTINEL, np.nan): a number equal to the sentinel; a text never is
ReplaceCell(v) == IF v.t = "num" /\ NumEq(v, Num(SENTINEL)) THEN NaN ELSE v

ReplaceSentinel(frame) ==
    [k \in 1..Len(frame) |-> [c \in DOMAIN frame[k] |-> ReplaceCell(frame[k][c])]]

Sanitize ==
    /\ pc = "read"
    /\ df' = ReplaceSentinel(DropEmptyRows(df))
    /\ pc' = "sanitized"
    /\ UNCHANGED <<csv, cols, axis_cols, platform, x_axis, y_axis, data, norm_in,
                   i, mu, sigma, outcome, table>>

(***************************************************************************)
(* 3 . Trim columns <= 'hbb'                                               *)
(***************************************************************************)
TrimmedCols(cs) ==
    IF "hbb" \in Range(cs) THEN SubSeq(cs, 1, IndexOf(cs, "hbb")) ELSE cs

TrimColumns ==
    /\ pc = "sanitized"
    /\ cols' = TrimmedCols(cols)
    /\ df' = [k \in 1..Len(df) |-> Restrict(df[k], TrimmedCols(cols))]
    /\ pc' = "trimmed"
    /\ UNCHANGED <<csv, axis_cols, platform, x_axis, y_axis, data, norm_in, i,
                   mu, sigma, outcome, table>>

(***************************************************************************)
(* 4 . Parse ISO-UTC time                                                  *)
(***************************************************************************)
\* df["time"] = pd.to_datetime(df["time"], ...)
ParsedTime(frame) ==
    [k \in 1..Len(frame) |-> [frame[k] EXCEPT !["time"] = ToDatetime(frame[k]["time"])]]

ParseTime ==
    /\ pc = "trimmed"
    /\ df' = IF "time" \in Range(cols) THEN ParsedTime(df) ELSE df
    /\ pc' = "parsed"
    /\ UNCHANGED <<csv, cols, axis_cols, platform, x_axis, y_axis, data, norm_in,
                   i, mu, sigma, outcome, table>>

(***************************************************************************)
(* 5 . Axis-eligible columns: time + latitude -> end, coerced to numeric   *)
(***************************************************************************)
LatIdx(cs) == IF "latitude" \in Range(cs) THEN IndexOf(cs, "latitude") ELSE 1

AxisCols(cs) ==
    LET block == SubSeq(cs, LatIdx(cs), Len(cs))
    IN  IF "time" \in Range(cs) THEN <<"time">> \o block ELSE block

CoerceCell(axes, c, v) == IF c \in Range(axes) /\ c # "time" THEN ToNumeric(v) ELSE v

CoerceAxes(frame, axes) ==
    [k \in 1..Len(frame) |->
        [c \in DOMAIN frame[k] |-> CoerceCell(axes, c, frame[k][c])]]

ResolveAxes ==
    /\ pc = "parsed"
    /\ axis_cols' = AxisCols(cols)
    /\ df' = CoerceAxes(df, AxisCols(cols))
    /\ pc' = "resolved"
    /\ UNCHANGED <<csv, cols, platform, x_axis, y_axis, data, norm_in, i, mu,
                   sigma, outcome, table>>

(***************************************************************************)
(* 6 . UI widgets: platform, X-axis, Y-axis                                *)
(***************************************************************************)
\* df["platform_name"].dropna().unique()
Platforms(frame) == {v \in Range(Column(frame, "platform_name")) : ~IsNaN(v)}

\* st.selectbox over an empty list returns None
PlatformChoices(frame) == IF Platforms(frame) = {} THEN {None} ELSE Platforms(frame)

SelectWidgets ==
    /\ pc = "resolved"
    /\ IF "platform_name" \in Range(cols)
       THEN /\ platform' \in PlatformChoices(df)
            /\ x_axis' \in Range(axis_cols)
            /\ y_axis' \in Range(axis_cols)
            /\ pc' = "selected"
            /\ outcome' = outcome
       ELSE \* df["platform_name"] raises KeyError
            /\ pc' = "done"
            /\ outcome' = "error"
            /\ UNCHANGED <<platform, x_axis, y_axis>>
    /\ UNCHANGED <<csv, cols, df, axis_cols, data, norm_in, i, mu, sigma, table>>

(***************************************************************************)
(* 7 . Filter -> drop NaNs on chosen axes                                  *)
(***************************************************************************)
\* df[df["platform_name"] == platform]
PlatformRows(frame, p) ==
    Filter(frame, {k \in 1..Len(frame) : frame[k]["platform_name"] = p})

RecoerceCell(x, y, c, v) == IF c \in {x, y} /\ c # "time" THEN ToNumeric(v) ELSE v

Recoerce(frame, x, y) ==
    [k \in 1..Len(frame) |->
        [c \in DOMAIN frame[k] |-> RecoerceCell(x, y, c, frame[k][c])]]

DropMissingAxes_OnlyX(frame, x, y) ==
    Filter(frame, {k \in 1..Len(frame) : ~IsNaN(frame[k][x])})

\* data.dropna(subset=[x_axis, y_axis])
DropMissingAxes(frame, x, y) ==
    Filter(frame, {k \in 1..Len(frame) : ~IsNaN(frame[k][x]) /\ ~IsNaN(frame[k][y])})

Filtered(frame, p, x, y) == DropMissingAxes(Recoerce(PlatformRows(frame, p), x, y), x, y)

RowFilter ==
    /\ pc = "selected"
    /\ data' = Filtered(df, platform, x_axis, y_axis)
    /\ IF Filtered(df, platform, x_axis, y_axis) = <<>>
       THEN pc' = "done" /\ outcome' = "nodata"
       ELSE pc' = "filtered" /\ outcome' = outcome
    /\ UNCHANGED <<csv, cols, df, axis_cols, platform, x_axis, y_axis, norm_in, i,
                   mu, sigma, table>>

(***************************************************************************)
(* 8 . Resample into 15-minute buckets when time is the X-axis             *)
(***************************************************************************)
Bucket_Exact(m) == m

\* the start of the 15-minute bucket of minute m
Bucket(m) == (m \div BucketMinutes) * BucketMinutes

SetMin(S) == CHOOSE a \in S : \A b \in S : a <= b
SetMax(S) == CHOOSE a \in S : \A b \in S : b <= a

\* .resample("15T")[y].mean(): the mean of y over the rows in the bucket at b
BucketMean(frame, y, b) ==
    Mean(Column(Filter(frame, {k \in 1..Len(frame) : Bucket(frame[k]["time"].m) = b}), y))

\* one row per bucket from the first to the last, in time order
Bins(frame) ==
    LET bs == {Bucket(frame[k]["time"].m) : k \in 1..Len(frame)}
        n == (SetMax(bs) - SetMin(bs)) \div BucketMinutes + 1
    IN  [k \in 1..n |-> SetMin(bs) + (k - 1) * BucketMinutes]

\* .dropna().reset_index(): the empty buckets go, the columns are time and y
Resampled(frame, y) ==
    LET bins == Bins(frame)
        all == [k \in 1..Len(bins) |->
                   ("time" :> Ts(bins[k])) @@ (y :> BucketMean(frame, y, bins[k]))]
    IN  Filter(all, {k \in 1..Len(all) : ~IsNaN(all[k][y])})

Resample ==
    /\ pc = "filtered"
    /\ IF x_axis # "time"
       THEN /\ data' = data
            /\ norm_in' = data
            /\ pc' = "norm" /\ i' = 1 /\ outcome' = outcome
       ELSE IF y_axis = "time"
       THEN \* the index is no column of the resampler: KeyError
            /\ pc' = "done" /\ outcome' = "error"
            /\ UNCHANGED <<data, norm_in, i>>
       ELSE /\ data' = Resampled(data, y_axis)
            /\ norm_in' = Resampled(data, y_axis)
            /\ pc' = "norm" /\ i' = 1 /\ outcome' = outcome
    /\ UNCHANGED <<csv, cols, df, axis_cols, platform, x_axis, y_axis, mu, sigma,
                   table>>

(***************************************************************************)
(* 9 . Z-score normalisation + outlier removal, one column per pass        *)
(***************************************************************************)
ZScore(v, m, s) == NumDiv(NumSub(v, m), s)

Keep_Loose(z) == AbsLeq(z, Z_OUTLIER_CUT + 1)

\* z.abs() <= Z_OUTLIER_CUT
Keep(z) == AbsLeq(z, Z_OUTLIER_CUT)

Survivors_All(frame, col, m, s) == frame

\* data[z.abs() <= Z_OUTLIER_CUT]
Survivors(frame, col, m, s) ==
    Filter(frame, {k \in 1..Len(frame) : Keep(ZScore(frame[k][col], m, s))})

\* the body of the loop for one column
Normalized(frame, col, m, s) ==
    IF NonZero(s)
    THEN LET kept == Survivors(frame, col, m, s)
         IN  [k \in 1..Len(kept) |->
                 [kept[k] EXCEPT ![col] = ZScore(kept[k][col], m, s)]]
    ELSE [k \in 1..Len(frame) |-> [frame[k] EXCEPT ![col] = Num(0)]]

\* the column of pass 1 is x_axis, of pass 2 y_axis
PassCol == IF i = 1 THEN x_axis ELSE y_axis

NormalizePass ==
    /\ pc = "norm"
    /\ i \in {1, 2}
    /\ IF PassCol = "time"
       THEN UNCHANGED <<data, mu, sigma>>
       ELSE /\ mu' = Mean(Column(data, PassCol))
            /\ sigma' = Std(Column(data, PassCol))
            /\ data' = Normalized(data, PassCol, Mean(Column(data, PassCol)),
                                  Std(Column(data, PassCol)))
    /\ i' = i + 1
    /\ pc' = IF i = 2 THEN "check" ELSE "norm"
    /\ UNCHANGED <<csv, cols, df, axis_cols, platform, x_axis, y_axis, norm_in,
                   outcome, table>>

(***************************************************************************)
(* 9-10 . Empty check, then plot and preview table                         *)
(***************************************************************************)
\* data[[x_axis, y_axis]].head(100)
Preview(frame, x, y) ==
    [k \in 1..(IF Len(frame) < PreviewRows THEN Len(frame) ELSE PreviewRows) |->
        <<frame[k][x], frame[k][y]>>]

Finish ==
    /\ pc = "check"
    /\ IF data = <<>>
       THEN outcome' = "outliers" /\ table' = table
       ELSE outcome' = "result" /\ table' = Preview(data, x_axis, y_axis)
    /\ pc' = "done"
    /\ UNCHANGED <<csv, cols, df, axis_cols, platform, x_axis, y_axis, data,
                   norm_in, i, mu, sigma>>

Next ==
    \/ ReadCsv
    \/ Sanitize
    \/ TrimColumns
    \/ ParseTime
    \/ ResolveAxes
    \/ SelectWidgets
    \/ RowFilter
    \/ Resample
    \/ NormalizePass
    \/ Finish

Spec == Init /\ [][Next]_vars

(***************************************************************************)
(* Properties                                                              *)
(***************************************************************************)
\* the chosen axis columns that the Normalizer touches
NonTimeAxes == {x_axis, y_axis} \ {"time"}

\* a selection was made and the run went through RowFilter
Ran == pc = "done" /\ x_axis # ""

IsSentinel(v) == v.t = "num" /\ NumEq(v, Num(SENTINEL))

HoldsSentinel(frame) ==
    \E k \in 1..Len(frame) : \E c \in DOMAIN frame[k] : IsSentinel(frame[k][c])

ConstantCol(frame, col) ==
    /\ frame # <<>>
    /\ \A j, k \in 1..Len(frame) : frame[j][col] = frame[k][col]

IsZero(v) == v.t = "num" /\ v.c[1] = 0

\* C1: when all values of a non-time axis column are identical in the dataset
\* entering the Normalizer (of any size, one row included), the finished run
\* has only 0.0 in that column, and when this is so for every non-time axis
\* column no row was rejected at all.
C1_ConstantColumnZeroed ==
    (pc = "done" /\ outcome \in {"outliers", "result"}) =>
        /\ \A col \in NonTimeAxes :
              ConstantCol(norm_in, col) =>
                  \A k \in 1..Len(data) : IsZero(data[k][col])
        /\ (\A col \in NonTimeAxes : ConstantCol(norm_in, col)) =>
              Len(data) = Len(norm_in)

\* the rows of df that RowFilter is to keep
Matching ==
    {k \in 1..Len(df) :
        /\ df[k]["platform_name"] = platform
        /\ ~IsNaN(df[k][x_axis])
        /\ ~IsNaN(df[k][y_axis])}

\* C2: a finished run reports 'no data' exactly when no row matches the
\* category with both axis values present (and then the Resampler and the
\* Normalizer did not run), reports 'all rows removed as outliers' exactly
\* when some row matched but none is left after the two Normalizer passes,
\* and in every other case hands over a non-empty two-column result.
C2_EmptyStatesInOrder ==
    Ran =>
        /\ (outcome = "nodata") <=> (Matching = {})
        /\ (outcome = "nodata") => (i = 0 /\ norm_in = <<>>)
        /\ (outcome = "outliers") <=> (Matching # {} /\ i = 3 /\ data = <<>>)
        /\ (outcome \notin {"nodata", "outliers"}) =>
              /\ outcome = "result"
              /\ table # <<>>
              /\ \A k \in 1..Len(table) : Len(table[k]) = 2

\* C5: after the Sanitizer no row is missing in every column.
C5_NoEmptyRowAfterSanitizer ==
    (pc = "sanitized") => \A k \in 1..Len(df) : ~AllMissing(df[k])

\* C6: at every stage after the Sanitizer no cell of the working dataset
\* holds the sentinel as a number.
C6_NoSentinelDownstream ==
    (pc \notin {"upload", "read"}) => (~HoldsSentinel(df) /\ ~HoldsSentinel(data))

\* C7: a run with a selection from the axis-eligible list, x = y and the time
\* column included, ends in 'no data', 'all rows removed as outliers' or a
\* result, never in an unhandled error.
C7_NeverAborts ==
    Ran => outcome \in {"nodata", "outliers", "result"}

\* the category column as the Sanitizer leaves it
SanitizedCategory ==
    Column(ReplaceSentinel(DropEmptyRows(read_csv(csv))), "platform_name")

\* C10: when RowFilter runs the category column still holds the values the
\* Sanitizer left in it, whatever the column order.
C10_CategoryUntouched ==
    (pc = "selected") => Column(df, "platform_name") = SanitizedCategory

(***************************************************************************)
(* Normalizer: coupling of the two passes, and the cutoff                  *)
(***************************************************************************)
\* R: the rows entering the Normalizer that the x pass rejects
XRejected ==
    IF x_axis = "time" THEN {}
    ELSE LET col == Column(norm_in, x_axis)
             m == Mean(col)
             s == Std(col)
         IN  IF NonZero(s)
             THEN {k \in 1..Len(norm_in) : ~AbsLeq(ZScore(col[k], m, s), Z_OUTLIER_CUT)}
             ELSE {}

AfterX == Filter(norm_in, (1..Len(norm_in)) \ XRejected)

\* the y values the y pass reads: raw ones, or the x pass's output when x = y
YInput ==
    IF x_axis # y_axis THEN Column(AfterX, y_axis)
    ELSE LET col == Column(norm_in, x_axis)
             m == Mean(col)
             s == Std(col)
             rest == AfterX
         IN  [k \in 1..Len(rest) |->
                 IF NonZero(s) THEN ZScore(rest[k][x_axis], m, s) ELSE Num(0)]

\* C3: the mean and the standard deviation of the y pass are those of the y
\* values of the rows that entered the Normalizer minus the rows R the x pass
\* rejected.
C3_SequentialCoupling ==
    (pc = "check" /\ y_axis # "time") =>
        LET ys == YInput
        IN  mu = Mean(ys) /\ sigma = Std(ys)

\* the rows that two independent per-column tests over all rows would keep
IndependentKept ==
    LET col == Column(norm_in, y_axis)
        m == Mean(col)
        s == Std(col)
    IN  {k \in (1..Len(norm_in)) \ XRejected :
            ~NonZero(s) \/ AbsLeq(ZScore(col[k], m, s), Z_OUTLIER_CUT)}

\* the x pass rejected some rows and kept others, and the y pass then worked
\* with other statistics, and kept other rows, than an independent one would
C3_Witness ==
    /\ pc = "check"
    /\ x_axis # "time" /\ y_axis # "time" /\ x_axis # y_axis
    /\ XRejected # {}
    /\ AfterX # <<>>
    /\ sigma # Std(Column(norm_in, y_axis))
    /\ mu # Mean(Column(norm_in, y_axis))
    /\ Len(data) # Cardinality(IndependentKept)

\* v is the z-score, under mu and sigma, of one of the raw values
IsZScoreOf(v, raws) ==
    /\ v.t = "num"
    /\ IF NonZero(sigma)
       THEN \E j \in 1..Len(raws) :
               /\ raws[j].c = RAdd(RMul(v.c, sigma.c), mu.c)
               /\ raws[j].r = RMul(v.r, sigma.r)
       ELSE IsZero(v)

\* C4: after the Normalizer every value of every non-time axis column has an
\* absolute value of at most the cutoff, also when x = y; and the column a pass
\* has just written holds the z-scores of raw values under that pass's mean
\* and standard deviation (0.0 when the standard deviation is zero).
C4_WithinCutoff ==
    /\ (pc = "check" \/ (pc = "done" /\ outcome \in {"outliers", "result"})) =>
          \A k \in 1..Len(data) : \A col \in NonTimeAxes :
              AbsLeq(data[k][col], Z_OUTLIER_CUT)
    /\ (pc = "norm" /\ i = 2 /\ x_axis # "time") =>
          \A k \in 1..Len(data) :
              IsZScoreOf(data[k][x_axis], Column(norm_in, x_axis))
    /\ (pc = "check" /\ y_axis # "time" /\ x_axis # y_axis) =>
          \A k \in 1..Len(data) :
              IsZScoreOf(data[k][y_axis], Column(norm_in, y_axis))

\* both columns were normalised, rows were rejected, and some z-score is not 0
C4_Witness ==
    /\ pc = "check"
    /\ x_axis # "time" /\ y_axis # "time" /\ x_axis # y_axis
    /\ data # <<>>
    /\ Len(data) < Len(norm_in)
    /\ \E k \in 1..Len(data) : ~IsZero(data[k][x_axis]) /\ ~IsZero(data[k][y_axis])

(***************************************************************************)
(* Resampler and RowFilter                                                 *)
(***************************************************************************)
InBucket(frame, b) == {j \in 1..Len(frame) : Bucket(frame[j]["time"].m) = b}

RECURSIVE SumOver(_, _, _)
SumOver(frame, col, S) ==
    IF S = {} THEN RInt(0)
    ELSE LET j == CHOOSE e \in S : TRUE
         IN  RAdd(frame[j][col].c, SumOver(frame, col, S \ {j}))

C9_RowFilterOutput ==
    (pc = "filtered" \/ (pc = "norm" /\ i = 1 /\ x_axis # "time")) =>
        /\ \A k \in 1..Len(data) :
              /\ data[k]["platform_name"] = platform
              /\ ~IsNaN(data[k][x_axis])
              /\ ~IsNaN(data[k][y_axis])
        /\ data = Filter(df, Matching)

\* RowFilter kept a row, dropped one of another category, and dropped one of
\* the selected category for its missing y value
C9_Witness ==
    /\ pc = "filtered"
    /\ data # <<>>
    /\ \E k \in 1..Len(df) : df[k]["platform_name"] # platform
    /\ \E k \in 1..Len(df) :
          /\ df[k]["platform_name"] = platform
          /\ ~IsNaN(df[k][x_axis])
          /\ IsNaN(df[k][y_axis])

====
